---- MODULE Spec2Model ----
(* Personnel register: PersonnelManager (personnel_manager.py) over Position *)
(* (position.py) and Employee (employee.py), persisted to one JSON document. *)
(*                                                                           *)
(* Strings are sequences of one-character strings, so that str.strip,       *)
(* str.lower, str.isalpha and str.isupper are computed character by         *)
(* character.  Dates are triples <<year, month, day>>; their persisted form *)
(* is the ISO string produced by date.isoformat and parsed by strptime.     *)
(* A JSON object is a function whose DOMAIN is the set of keys present.     *)
EXTENDS Integers, Sequences, FiniteSets, TLC

VARIABLES positions, employees, file, today, up, last

vars == <<positions, employees, file, today, up, last>>

-----------------------------------------------------------------------------
(* Bounds of the model *)

\* add_position is explored while the store holds fewer positions than this
MaxPos == 2
\* add_employee is explored while the store holds fewer employees than this
MaxEmp == 2

-----------------------------------------------------------------------------
(* Characters and str methods *)

UpperChars == {"A", "B"}
LowerChars == {"a", "b"}
SpaceChars == {" "}
DigitChars == {"0", "1", "2", "3", "4", "5", "6", "7", "8", "9"}

\* str.lower on one character
LowerChar(c) ==
    CASE c = "A" -> "a"
      [] c = "B" -> "b"
      [] OTHER -> c

\* str.lower
lower(s) == [i \in 1..Len(s) |-> LowerChar(s[i])]

RECURSIVE lstrip(_)
lstrip(s) ==
    IF s # <<>> /\ Head(s) \in SpaceChars THEN lstrip(Tail(s)) ELSE s

RECURSIVE rstrip(_)
rstrip(s) ==
    IF s # <<>> /\ s[Len(s)] \in SpaceChars
    THEN rstrip(SubSeq(s, 1, Len(s) - 1))
    ELSE s

\* str.strip
strip(s) == rstrip(lstrip(s))

\* str.isalpha: non-empty and every character alphabetic
isalpha(s) == s # <<>> /\ \A i \in 1..Len(s) : s[i] \in UpperChars \cup LowerChars

\* str.isupper on one character
isupper(c) == c \in UpperChars

-----------------------------------------------------------------------------
(* Dates: datetime.date, date.isoformat, datetime.strptime(s, "%Y-%m-%d") *)

DigitOf(n) ==
    CASE n = 0 -> "0" [] n = 1 -> "1" [] n = 2 -> "2" [] n = 3 -> "3"
      [] n = 4 -> "4" [] n = 5 -> "5" [] n = 6 -> "6" [] n = 7 -> "7"
      [] n = 8 -> "8" [] n = 9 -> "9"

ValOf(c) == CHOOSE n \in 0..9 : DigitOf(n) = c

\* n written with exactly w digits, zero padded
RECURSIVE Pad(_, _)
Pad(n, w) == IF w = 0 THEN <<>> ELSE Pad(n \div 10, w - 1) \o <<DigitOf(n % 10)>>

\* the number a sequence of digits denotes
RECURSIVE Num(_)
Num(s) == IF s = <<>> THEN 0 ELSE 10 * Num(SubSeq(s, 1, Len(s) - 1)) + ValOf(s[Len(s)])

AllDigits(s) == \A i \in 1..Len(s) : s[i] \in DigitChars

IsLeap(y) == (y % 4 = 0 /\ y % 100 # 0) \/ y % 400 = 0

DaysIn(y, m) ==
    CASE m \in {1, 3, 5, 7, 8, 10, 12} -> 31
      [] m \in {4, 6, 9, 11} -> 30
      [] OTHER -> IF IsLeap(y) THEN 29 ELSE 28

\* date.isoformat: YYYY-MM-DD
isoformat(d) == Pad(d[1], 4) \o <<"-">> \o Pad(d[2], 2) \o <<"-">> \o Pad(d[3], 2)

\* d1 <= d2 on dates
DateLeq(d1, d2) ==
    \/ d1[1] < d2[1]
    \/ d1[1] = d2[1] /\ d1[2] < d2[2]
    \/ d1[1] = d2[1] /\ d1[2] = d2[2] /\ d1[3] <= d2[3]

\* the fields of s under "%Y-%m-%d": four year digits, one or two month
\* digits, one or two day digits, separated by "-"; <<>> when s has another shape
Fields(s) ==
    LET n == Len(s)
        lm == IF n >= 7 /\ s[7] = "-" THEN 1 ELSE 2
        ld == n - 6 - lm
        dp == SubSeq(s, 7 + lm, n)
        \* "%d" also takes a one-digit day written after a space
        dd == IF Len(dp) = 2 /\ dp[1] = " " THEN Tail(dp) ELSE dp
    IN  IF /\ n >= 8
           /\ AllDigits(SubSeq(s, 1, 4))
           /\ s[5] = "-"
           /\ s[6 + lm] = "-"
           /\ ld \in {1, 2}
           /\ AllDigits(SubSeq(s, 6, 5 + lm))
           /\ AllDigits(dd)
        THEN <<Num(SubSeq(s, 1, 4)), Num(SubSeq(s, 6, 5 + lm)), Num(dd)>>
        ELSE <<>>

\* datetime.strptime(s, "%Y-%m-%d").date(): [ok, date]; ok is FALSE where
\* strptime raises (the format does not match, or the date does not exist)
strptime(s) ==
    LET f == Fields(s)
    IN  IF /\ f # <<>>
           /\ f[1] >= 1
           /\ f[2] \in 1..12
           /\ f[3] >= 1
           /\ f[3] <= DaysIn(f[1], f[2])
        THEN [ok |-> TRUE, date |-> f]
        ELSE [ok |-> FALSE, date |-> <<>>]

-----------------------------------------------------------------------------
(* dict.get *)

Get(d, k, dflt) == IF k \in DOMAIN d THEN d[k] ELSE dflt

-----------------------------------------------------------------------------
(* Identifiers.  uuid4 returns a token no object of the store carries.  NoId  *)
(* is the falsy id (None or "") that makes a constructor draw a fresh one.   *)

NoId == 0
PosIds == 1..MaxPos
EmpIds == 1..MaxEmp

\* the value of "id or str(uuid.uuid4())"
IdOr(id, fresh) == IF id = NoId THEN fresh ELSE id

-----------------------------------------------------------------------------
(* position.py *)

ALLOWED_ACCESS_LEVELS == {1, 2, 3, 4, 5}

\* Position.__init__: [ok, pos] or [ok, err]
Position(name, access_level, salary, id, fresh) ==
    LET self == [id |-> IdOr(id, fresh), name |-> strip(name),
                 access_level |-> access_level, salary |-> salary]
    IN  IF self.name = <<>> THEN [ok |-> FALSE, err |-> "empty_name"]
        ELSE IF self.access_level \notin ALLOWED_ACCESS_LEVELS
             THEN [ok |-> FALSE, err |-> "bad_access_level"]
             ELSE [ok |-> TRUE, pos |-> self]

\* Position.to_dict
PositionToDict(p) ==
    [id |-> p.id, name |-> p.name, access_level |-> p.access_level, salary |-> p.salary]

\* Position.from_dict
PositionFromDict(data, fresh) ==
    Position(Get(data, "name", <<>>), Get(data, "access_level", 1),
             Get(data, "salary", 0), Get(data, "id", NoId), fresh)

-----------------------------------------------------------------------------
(* The positions dict: a sequence of Position objects with distinct ids, in  *)
(* insertion order.                                                          *)

Keys(d) == {d[i].id : i \in 1..Len(d)}

Lookup(d, id) == d[CHOOSE i \in 1..Len(d) : d[i].id = id]

\* d[pos.id] = pos: an existing key keeps its place
DictSet(d, pos) ==
    IF pos.id \in Keys(d)
    THEN [i \in 1..Len(d) |-> IF d[i].id = pos.id THEN pos ELSE d[i]]
    ELSE Append(d, pos)

\* del d[id]
DictDel(d, id) == SelectSeq(d, LAMBDA p : p.id # id)

-----------------------------------------------------------------------------
(* employee.py.  An Employee holds a reference to a Position object.  The    *)
(* model keeps the id of that object in `position`; `detached` is <<>> while *)
(* the object is the one the positions dict holds under that id, and <<p>>,  *)
(* p the object's fields, once load_data has put another object under the id. *)

\* e.position, the Position object the employee e holds
PositionOf(e, posDict) ==
    IF e.detached = <<>> THEN Lookup(posDict, e.position) ELSE e.detached[1]

\* Employee.validate_name
validate_name(name) == isalpha(name) /\ isupper(name[1])

\* Employee.__init__: [ok, emp] or [ok, err]
Employee(first_name, last_name, position, hire_date, id, fresh, now) ==
    LET self == [id |-> IdOr(id, fresh), first_name |-> first_name,
                 last_name |-> last_name, position |-> position,
                 hire_date |-> hire_date, detached |-> <<>>]
    IN  IF ~validate_name(self.first_name) THEN [ok |-> FALSE, err |-> "bad_first_name"]
        ELSE IF ~validate_name(self.last_name) THEN [ok |-> FALSE, err |-> "bad_last_name"]
        ELSE IF ~DateLeq(self.hire_date, now) THEN [ok |-> FALSE, err |-> "future_hire_date"]
        ELSE [ok |-> TRUE, emp |-> self]

\* Employee.to_dict
EmployeeToDict(e) ==
    [id |-> e.id, first_name |-> e.first_name, last_name |-> e.last_name,
     position_id |-> e.position, hire_date |-> isoformat(e.hire_date)]

\* from_dict that lets the error of strptime out instead of returning None
EmployeeFromDict_strict(data, posDict, fresh, now) ==
    LET hd == strptime(Get(data, "hire_date", <<>>))
        pid == Get(data, "position_id", NoId)
    IN  IF ~hd.ok THEN [kind |-> "raise", err |-> "bad_date"]
        ELSE IF pid \notin Keys(posDict) THEN [kind |-> "none"]
        ELSE LET r == Employee(Get(data, "first_name", <<>>), Get(data, "last_name", <<>>),
                               pid, hd.date, Get(data, "id", NoId), fresh, now)
             IN  IF r.ok THEN [kind |-> "emp", emp |-> r.emp]
                 ELSE [kind |-> "raise", err |-> r.err]

\* Employee.from_dict: [kind |-> "emp", emp], [kind |-> "none"] where it
\* returns None, [kind |-> "raise", err] where the constructor raises
EmployeeFromDict(data, posDict, fresh, now) ==
    LET hd == strptime(Get(data, "hire_date", <<>>))
        pid == Get(data, "position_id", NoId)
    IN  IF ~hd.ok THEN [kind |-> "none"]
        ELSE IF pid \notin Keys(posDict) THEN [kind |-> "none"]
        ELSE LET r == Employee(Get(data, "first_name", <<>>), Get(data, "last_name", <<>>),
                               pid, hd.date, Get(data, "id", NoId), fresh, now)
             IN  IF r.ok THEN [kind |-> "emp", emp |-> r.emp]
                 ELSE [kind |-> "raise", err |-> r.err]

-----------------------------------------------------------------------------
(* personnel_manager.py: load_data and save_data *)

\* The persisted document of the current collections; `file` is <<>> while
\* DATA_FILE does not exist and <<document>> once it is written
Document(posDict, emps) ==
    [positions |-> [i \in 1..Len(posDict) |-> PositionToDict(posDict[i])],
     employees |-> [i \in 1..Len(emps) |-> EmployeeToDict(emps[i])]]

\* save_data that serializes the positions and leaves the employees out
save_data_positions_only(posDict, emps) == <<Document(posDict, <<>>)>>

\* PersonnelManager.save_data: the whole file is replaced
save_data(posDict, emps) == <<Document(posDict, emps)>>

\* the loop over data["positions"]; `uuids` are the values uuid4 returns,
\* `assigned` the keys the loop has put a new object under so far
RECURSIVE LoadPositions(_, _, _, _)
LoadPositions(raws, acc, uuids, assigned) ==
    IF raws = <<>> THEN [err |-> "none", positions |-> acc, assigned |-> assigned]
    ELSE LET noid == Get(Head(raws), "id", NoId) = NoId
             r == PositionFromDict(Head(raws), IF noid THEN Head(uuids) ELSE NoId)
         IN  IF ~r.ok THEN [err |-> r.err, positions |-> acc, assigned |-> assigned]
             ELSE LoadPositions(Tail(raws), DictSet(acc, r.pos),
                                IF noid THEN Tail(uuids) ELSE uuids,
                                assigned \cup {r.pos.id})

\* the employees of before a load: one whose Position object was the dict's
\* under a key of `assigned` keeps that object, which the dict holds no longer
Detach(emps, posDict, assigned) ==
    [i \in 1..Len(emps) |->
        IF emps[i].detached = <<>> /\ emps[i].position \in assigned
        THEN [emps[i] EXCEPT !.detached = <<Lookup(posDict, emps[i].position)>>]
        ELSE emps[i]]

\* the loop over data["employees"]
RECURSIVE LoadEmployees(_, _, _, _, _)
LoadEmployees(raws, posDict, acc, uuids, now) ==
    IF raws = <<>> THEN [err |-> "none", employees |-> acc]
    ELSE LET noid == Get(Head(raws), "id", NoId) = NoId
             r == EmployeeFromDict(Head(raws), posDict,
                                   IF noid THEN Head(uuids) ELSE NoId, now)
         IN  CASE r.kind = "raise" -> [err |-> r.err, employees |-> acc]
               [] r.kind = "none" -> LoadEmployees(Tail(raws), posDict, acc, uuids, now)
               [] OTHER -> LoadEmployees(Tail(raws), posDict, Append(acc, r.emp),
                                         IF noid THEN Tail(uuids) ELSE uuids, now)

\* What a write of the document `doc` that did not finish leaves in the file:
\* open(DATA_FILE, "w") has emptied it and json.dump has written the text up
\* to the n-th record, n = 0 leaving it empty.  The text is no JSON value.
Truncated(doc, n) == [truncated |-> SubSeq(doc.positions \o doc.employees, 1, n)]

IsTruncated(content) == "truncated" \in DOMAIN content

\* PersonnelManager.load_data on a manager holding posDict and emps:
\* [err, positions, employees, file]
load_data(posDict, emps, f, now, posUuids, empUuids) ==
    IF f = <<>>
    THEN [err |-> "none", positions |-> posDict, employees |-> emps,
          file |-> save_data(posDict, emps)]
    ELSE IF IsTruncated(f[1])
    \* json.load raises JSONDecodeError, which load_data does not catch
    THEN [err |-> "json_decode", positions |-> posDict, employees |-> emps, file |-> f]
    ELSE LET data == f[1]
             lp == LoadPositions(Get(data, "positions", <<>>), posDict, posUuids, {})
             before == Detach(emps, posDict, lp.assigned)
             le == LoadEmployees(Get(data, "employees", <<>>), lp.positions, before,
                                 empUuids, now)
         IN  IF lp.err # "none"
             THEN [err |-> lp.err, positions |-> lp.positions, employees |-> before,
                   file |-> f]
             ELSE [err |-> le.err, positions |-> lp.positions,
                   employees |-> le.employees, file |-> f]

\* how many records of a list carry no id
NoIdCount(raws) == Cardinality({i \in 1..Len(raws) : Get(raws[i], "id", NoId) = NoId})

RawIds(raws) == {Get(raws[i], "id", NoId) : i \in 1..Len(raws)}

\* the sequences of n distinct fresh tokens of `universe` outside `used`
Uuids(universe, used, n) ==
    {u \in [1..n -> universe \ used] : \A i, j \in 1..n : u[i] = u[j] => i = j}

\* PersonnelManager.__init__ over the file f: empty collections, then load_data
Construct(f, now, posUuids, empUuids) == load_data(<<>>, <<>>, f, now, posUuids, empUuids)

-----------------------------------------------------------------------------
(* Inputs *)

PosNameArgs == {<<>>, <<" ">>, <<"A">>, <<"a">>, <<" ", "A">>, <<"B">>}
LevelArgs == {1, 5, 6}
SalaryArgs == {100, 200}
\* the day of the run, and the hire dates supplied: that day and the day after
FirstDay == <<2026, 10, 30>>
DayAfter == <<2026, 10, 31>>
DateArgs == {FirstDay, DayAfter}

\* an optional argument: <<>> when not supplied (None), <<v>> when supplied
Opt(S) == {<<>>} \cup {<<v>> : v \in S}

\* the **kwargs of update_employee: an object holding the supplied keys
Kwargs(fn, ln, pid, hd) ==
    LET keys == (IF fn # <<>> THEN {"first_name"} ELSE {})
                \cup (IF ln # <<>> THEN {"last_name"} ELSE {})
                \cup (IF pid # <<>> THEN {"position_id"} ELSE {})
                \cup (IF hd # <<>> THEN {"hire_date"} ELSE {})
    IN  [k \in keys |-> CASE k = "first_name" -> fn[1]
                          [] k = "last_name" -> ln[1]
                          [] k = "position_id" -> pid[1]
                          [] k = "hire_date" -> hd[1]]

\* records of persisted documents
RawP1 == [id |-> 1, name |-> <<"A">>, access_level |-> 1, salary |-> 100]
RawP2 == [id |-> 2, name |-> <<"B">>, access_level |-> 1, salary |-> 100]
RawE1 == [id |-> 1, first_name |-> <<"A">>, last_name |-> <<"A">>, position_id |-> 1,
          hire_date |-> isoformat(FirstDay)]
RawE2 == [RawE1 EXCEPT !.id = 2]
\* 30 February: strptime raises
RawBadDate == [RawE2 EXCEPT !.hire_date = <<"2", "0", "2", "0", "-", "0", "2", "-", "3", "0">>]
\* 1 March 2020, written 2020-3- 1, of a position the document does not hold
RawDangling == [RawE2 EXCEPT !.position_id = 2,
                             !.hire_date = <<"2", "0", "2", "0", "-", "3", "-", " ", "1">>]

\* the files a manager may be constructed over: none, the empty store, and
\* documents as an editor or an earlier version of the program may have left
\* them: with corrupt employee records, with an employee id or a position id
\* used twice, with records lacking keys or with an empty id, with an invalid
\* position, with an invalid employee name
Files ==
    { <<>>,
      <<[positions |-> <<>>, employees |-> <<>>]>>,
      <<[positions |-> <<RawP1>>,
         employees |-> <<RawBadDate, RawE1, RawDangling, RawE2>>]>>,
      <<[positions |-> <<RawP1>>,
         employees |-> <<RawE1, [RawE2 EXCEPT !.id = 1]>>]>>,
      <<[positions |-> <<RawP1, [RawP2 EXCEPT !.id = 1]>>, employees |-> <<RawE1>>]>>,
      <<[positions |-> <<RawP1, [name |-> <<"B">>, salary |-> 100]>>,
         employees |-> <<[RawE1 EXCEPT !.id = NoId]>>]>>,
      <<[positions |-> <<RawP1, [id |-> 2, name |-> <<" ">>]>>, employees |-> <<RawE1>>]>>,
      <<[positions |-> <<RawP1>>,
         employees |-> <<RawE1, [RawE2 EXCEPT !.first_name = <<"a">>]>>]>> }

-----------------------------------------------------------------------------
(* State.  positions, employees: the manager's collections.  file: DATA_FILE. *)
(* today: datetime.date.today().  up: a manager exists (its constructor      *)
(* returned).  last: the last call and the error it raised, "none" if none.  *)

Records(f, key) == IF f = <<>> THEN <<>> ELSE Get(f[1], key, <<>>)

\* the outcomes of load_data() over the file f on a manager holding posDict
\* and emps, one per choice of the tokens uuid4 returns for the records that
\* carry no id
Loads(posDict, emps, f, now) ==
    {load_data(posDict, emps, f, now, pu, eu) :
        pu \in Uuids(PosIds, RawIds(Records(f, "positions")) \cup Keys(posDict),
                     NoIdCount(Records(f, "positions"))),
        eu \in Uuids(EmpIds, RawIds(Records(f, "employees"))
                                 \cup {emps[i].id : i \in 1..Len(emps)},
                     NoIdCount(Records(f, "employees")))}

\* the outcomes of PersonnelManager() over the file f
Constructions(f, now) == Loads(<<>>, <<>>, f, now)

InitOver(files) ==
    /\ today = FirstDay
    /\ \E f \in files : \E r \in Constructions(f, today) :
         /\ positions = r.positions
         /\ employees = r.employees
         /\ file = r.file
         /\ up = (r.err = "none")
         /\ last = [op |-> "load_data", err |-> r.err]

Raise(op, err) ==
    /\ last' = [op |-> op, err |-> err]
    /\ UNCHANGED <<positions, employees, file, today, up>>

-----------------------------------------------------------------------------
(* Position methods of PersonnelManager *)

\* the tokens uuid4 may return for a new Position, a new Employee: any token
\* no object of the collection carries
FreshPosIds == PosIds \ Keys(positions)
FreshEmpIds == EmpIds \ {employees[i].id : i \in 1..Len(employees)}

\* PersonnelManager.add_position
add_position(name, access_level, salary) ==
    IF \E i \in 1..Len(positions) : lower(positions[i].name) = lower(name)
    THEN Raise("add_position", "duplicate_name")
    ELSE \E uuid \in FreshPosIds :
         LET r == Position(name, access_level, salary, NoId, uuid)
         IN  IF ~r.ok THEN Raise("add_position", r.err)
             ELSE /\ positions' = DictSet(positions, r.pos)
                  /\ file' = save_data(positions', employees)
                  /\ last' = [op |-> "add_position", err |-> "none"]
                  /\ UNCHANGED <<employees, today, up>>

\* delete_position without the check for employees holding the position
delete_position_unchecked(pos_id) ==
    IF pos_id \notin Keys(positions)
    THEN Raise("delete_position", "not_found")
    ELSE /\ positions' = DictDel(positions, pos_id)
         /\ file' = save_data(positions', employees)
         /\ last' = [op |-> "delete_position", err |-> "none"]
         /\ UNCHANGED <<employees, today, up>>

\* delete_position that looks for the key before it looks for references
\* and takes an unknown id for a referenced one
delete_position_reordered(pos_id) ==
    IF pos_id \notin Keys(positions) \/ Len(employees) > 0
    THEN Raise("delete_position", "referenced")
    ELSE /\ positions' = DictDel(positions, pos_id)
         /\ file' = save_data(positions', employees)
         /\ last' = [op |-> "delete_position", err |-> "none"]
         /\ UNCHANGED <<employees, today, up>>

\* PersonnelManager.delete_position
delete_position(pos_id) ==
    IF \E i \in 1..Len(employees) : employees[i].position = pos_id
    THEN Raise("delete_position", "referenced")
    ELSE IF pos_id \notin Keys(positions)
    THEN Raise("delete_position", "not_found")
    ELSE /\ positions' = DictDel(positions, pos_id)
         /\ file' = save_data(positions', employees)
         /\ last' = [op |-> "delete_position", err |-> "none"]
         /\ UNCHANGED <<employees, today, up>>

\* update_position that assigns the access level without checking it
update_position_any_level(pos_id, name, access_level, salary) ==
    IF pos_id \notin Keys(positions)
    THEN Raise("update_position", "not_found")
    ELSE LET pos == Lookup(positions, pos_id)
             hasName == name # <<>> /\ name[1] # <<>>
             clash == \E i \in 1..Len(positions) :
                          /\ lower(positions[i].name) = lower(name[1])
                          /\ positions[i].id # pos_id
             p1 == IF hasName THEN [pos EXCEPT !.name = name[1]] ELSE pos
             p2 == IF access_level # <<>>
                   THEN [p1 EXCEPT !.access_level = access_level[1]] ELSE p1
             p3 == IF salary # <<>> THEN [p2 EXCEPT !.salary = salary[1]] ELSE p2
         IN  IF hasName /\ clash
             THEN Raise("update_position", "duplicate_name")
             ELSE /\ positions' = DictSet(positions, p3)
                  /\ file' = save_data(positions', employees)
                  /\ last' = [op |-> "update_position", err |-> "none"]
                  /\ UNCHANGED <<employees, today, up>>

\* PersonnelManager.update_position; name, access_level and salary are
\* optional.  The fields are checked and assigned one after the other on the
\* Position object itself, so a field assigned before a later check raises
\* stays assigned.
update_position(pos_id, name, access_level, salary) ==
    IF pos_id \notin Keys(positions)
    THEN Raise("update_position", "not_found")
    ELSE LET pos == Lookup(positions, pos_id)
             \* "if name:" is false for None and for the empty string
             hasName == name # <<>> /\ name[1] # <<>>
             clash == \E i \in 1..Len(positions) :
                          /\ lower(positions[i].name) = lower(name[1])
                          /\ positions[i].id # pos_id
             p1 == IF hasName THEN [pos EXCEPT !.name = name[1]] ELSE pos
             hasLevel == access_level # <<>>
             p2 == IF hasLevel THEN [p1 EXCEPT !.access_level = access_level[1]] ELSE p1
             p3 == IF salary # <<>> THEN [p2 EXCEPT !.salary = salary[1]] ELSE p2
         IN  IF hasName /\ clash
             THEN Raise("update_position", "duplicate_name")
             ELSE IF hasLevel /\ access_level[1] \notin ALLOWED_ACCESS_LEVELS
             THEN /\ positions' = DictSet(positions, p1)
                  /\ last' = [op |-> "update_position", err |-> "bad_access_level"]
                  /\ UNCHANGED <<employees, file, today, up>>
             ELSE /\ positions' = DictSet(positions, p3)
                  /\ file' = save_data(positions', employees)
                  /\ last' = [op |-> "update_position", err |-> "none"]
                  /\ UNCHANGED <<employees, today, up>>

-----------------------------------------------------------------------------
(* Employee methods of PersonnelManager *)

\* add_employee without the check that position_id is a key of positions
add_employee_any_position(first_name, last_name, position_id, hire_date) ==
    IF ~validate_name(first_name) \/ ~validate_name(last_name)
    THEN Raise("add_employee", "bad_name")
    ELSE IF ~DateLeq(hire_date, today)
    THEN Raise("add_employee", "future_hire_date")
    ELSE \E uuid \in FreshEmpIds :
         LET r == Employee(first_name, last_name, position_id, hire_date, NoId, uuid, today)
         IN  IF ~r.ok THEN Raise("add_employee", r.err)
             ELSE /\ employees' = Append(employees, r.emp)
                  /\ file' = save_data(positions, employees')
                  /\ last' = [op |-> "add_employee", err |-> "none"]
                  /\ UNCHANGED <<positions, today, up>>

\* PersonnelManager.add_employee
add_employee(first_name, last_name, position_id, hire_date) ==
    IF ~validate_name(first_name) \/ ~validate_name(last_name)
    THEN Raise("add_employee", "bad_name")
    ELSE IF ~DateLeq(hire_date, today)
    THEN Raise("add_employee", "future_hire_date")
    ELSE IF position_id \notin Keys(positions)
    THEN Raise("add_employee", "not_found")
    ELSE \E uuid \in FreshEmpIds :
         LET r == Employee(first_name, last_name, position_id, hire_date, NoId, uuid, today)
         IN  IF ~r.ok THEN Raise("add_employee", r.err)
             ELSE /\ employees' = Append(employees, r.emp)
                  /\ file' = save_data(positions, employees')
                  /\ last' = [op |-> "add_employee", err |-> "none"]
                  /\ UNCHANGED <<positions, today, up>>

\* PersonnelManager.delete_employee
delete_employee(emp_id) ==
    LET kept == SelectSeq(employees, LAMBDA e : e.id # emp_id)
    IN  IF Len(kept) = Len(employees)
        THEN Raise("delete_employee", "not_found")
        ELSE /\ employees' = kept
             /\ file' = save_data(positions, employees')
             /\ last' = [op |-> "delete_employee", err |-> "none"]
             /\ UNCHANGED <<positions, today, up>>

\* PersonnelManager.update_employee on the first employee with the id.  The
\* supplied fields are checked and assigned one after the other on the
\* Employee object itself.
update_employee(emp_id, kwargs) ==
    IF \A i \in 1..Len(employees) : employees[i].id # emp_id
    THEN Raise("update_employee", "not_found")
    ELSE LET k == CHOOSE i \in 1..Len(employees) :
                      /\ employees[i].id = emp_id
                      /\ \A j \in 1..(i - 1) : employees[j].id # emp_id
             e == employees[k]
             has(key) == key \in DOMAIN kwargs
             okFirst == has("first_name") => validate_name(kwargs["first_name"])
             e1 == IF has("first_name") THEN [e EXCEPT !.first_name = kwargs["first_name"]] ELSE e
             okLast == has("last_name") => validate_name(kwargs["last_name"])
             e2 == IF has("last_name") THEN [e1 EXCEPT !.last_name = kwargs["last_name"]] ELSE e1
             okPos == has("position_id") => kwargs["position_id"] \in Keys(positions)
             e3 == IF has("position_id")
                   THEN [e2 EXCEPT !.position = kwargs["position_id"], !.detached = <<>>]
                   ELSE e2
             okDate == has("hire_date") => DateLeq(kwargs["hire_date"], today)
             e4 == IF has("hire_date") THEN [e3 EXCEPT !.hire_date = kwargs["hire_date"]] ELSE e3
             Stop(obj, err) ==
                 /\ employees' = [employees EXCEPT ![k] = obj]
                 /\ last' = [op |-> "update_employee", err |-> err]
                 /\ UNCHANGED <<positions, file, today, up>>
         IN  IF ~okFirst THEN Stop(e, "bad_first_name")
             ELSE IF ~okLast THEN Stop(e1, "bad_last_name")
             ELSE IF ~okPos THEN Stop(e2, "not_found_position")
             ELSE IF ~okDate THEN Stop(e3, "future_hire_date")
             ELSE /\ employees' = [employees EXCEPT ![k] = e4]
                  /\ file' = save_data(positions, employees')
                  /\ last' = [op |-> "update_employee", err |-> "none"]
                  /\ UNCHANGED <<positions, today, up>>

-----------------------------------------------------------------------------
(* The program around the manager *)

\* the process ends and a new PersonnelManager() is constructed over the file
Restart ==
    \E r \in Constructions(file, today) :
        /\ positions' = r.positions
        /\ employees' = r.employees
        /\ file' = r.file
        /\ up' = (r.err = "none")
        /\ last' = [op |-> "load_data", err |-> r.err]
        /\ UNCHANGED today

\* load_data() called on the manager in use: the positions of the file are
\* put into the dict, the employees of the file are appended to the list
LoadData ==
    /\ up
    /\ Len(employees) + Len(Records(file, "employees")) <= MaxEmp
    /\ \E r \in Loads(positions, employees, file, today) :
           /\ positions' = r.positions
           /\ employees' = r.employees
           /\ file' = r.file
           /\ last' = [op |-> "load_data_live", err |-> r.err]
           /\ UNCHANGED <<today, up>>

\* save_data() called on the manager in use
SaveData ==
    /\ up
    /\ file' = save_data(positions, employees)
    /\ last' = [op |-> "save_data", err |-> "none"]
    /\ UNCHANGED <<positions, employees, today, up>>

-----------------------------------------------------------------------------
(* Calls, with their arguments drawn from the given sets *)

AddPositionOver(names, levels, salaries) ==
    /\ up
    /\ Len(positions) < MaxPos
    /\ \E name \in names, access_level \in levels, salary \in salaries :
           add_position(name, access_level, salary)

UpdatePositionOver(names, levels, salaries) ==
    /\ up
    /\ \E pos_id \in PosIds, name \in Opt(names), access_level \in Opt(levels),
          salary \in Opt(salaries) :
           update_position(pos_id, name, access_level, salary)

DeletePosition ==
    /\ up
    /\ \E pos_id \in PosIds : delete_position(pos_id)

AddEmployeeOver(firsts, lasts, dates) ==
    /\ up
    /\ Len(employees) < MaxEmp
    /\ \E first_name \in firsts, last_name \in lasts, position_id \in PosIds,
          hire_date \in dates :
           add_employee(first_name, last_name, position_id, hire_date)

UpdateEmployeeOver(firsts, lasts, dates) ==
    /\ up
    /\ \E emp_id \in EmpIds, fn \in Opt(firsts), ln \in Opt(lasts),
          pid \in Opt(PosIds), hd \in Opt(dates) :
           update_employee(emp_id, Kwargs(fn, ln, pid, hd))

DeleteEmployee ==
    /\ up
    /\ \E emp_id \in EmpIds : delete_employee(emp_id)

-----------------------------------------------------------------------------
(* The store: every operation of the manager, over a file of any content *)

StorePosNames == {<<"A">>, <<"B">>}
StoreFirstNames == {<<"A">>, <<"a">>, <<"A", "1">>, <<>>}
StoreLastNames == {<<"A">>, <<"a">>}

AddPosition == AddPositionOver(StorePosNames, {1}, {100})
UpdatePosition == UpdatePositionOver({<<"B">>}, {6}, {})
AddEmployee == AddEmployeeOver(StoreFirstNames, StoreLastNames, DateArgs)
UpdateEmployee == UpdateEmployeeOver({}, {}, {})

Next ==
    \/ AddPosition
    \/ UpdatePosition
    \/ DeletePosition
    \/ AddEmployee
    \/ UpdateEmployee
    \/ DeleteEmployee
    \/ LoadData
    \/ SaveData
    \/ Restart

\* a manager constructed over a file of any content
Init == InitOver(Files)

Spec == Init /\ [][Next]_vars

\* the first run: no DATA_FILE yet
InitFresh == InitOver({<<>>})

-----------------------------------------------------------------------------
(* The positions alone, from the first run, with names of every shape *)

AddPositionAny == AddPositionOver(PosNameArgs, LevelArgs, SalaryArgs)
UpdatePositionAny == UpdatePositionOver(PosNameArgs, LevelArgs, SalaryArgs)

NextPositions ==
    \/ AddPositionAny
    \/ UpdatePositionAny
    \/ DeletePosition
    \/ Restart

SpecPositions == InitFresh /\ [][NextPositions]_vars

-----------------------------------------------------------------------------
(* The employees of one position, with updates of every field *)

AddPositionOne == AddPositionOver({<<"A">>}, {1}, {100})
AddEmployeeOne == AddEmployeeOver({<<"A">>}, {<<"A">>}, {FirstDay})
UpdateEmployeeAny == UpdateEmployeeOver({<<"B">>, <<"a">>}, {<<"B">>, <<"A", "1">>}, DateArgs)

NextEmployees ==
    \/ AddPositionOne
    \/ AddEmployeeOne
    \/ UpdateEmployeeAny
    \/ DeleteEmployee
    \/ Restart

SpecEmployees == InitFresh /\ [][NextEmployees]_vars

-----------------------------------------------------------------------------
(* Properties *)

Referenced(pos_id) == \E i \in 1..Len(employees) : employees[i].position = pos_id

\* C1: every employee of the employees list references a Position whose id
\* is a key of the positions map, after any sequence of calls, failed or not.
C1_ReferentialIntegrity ==
    \A i \in 1..Len(employees) : employees[i].position \in Keys(positions)

\* a position was deleted while the store holds employees
C1_Witness ==
    /\ last = [op |-> "delete_position", err |-> "none"]
    /\ employees # <<>>

\* C3: delete_position(id) on an existing position raises the referenced
\* error and leaves positions and the file as they were whenever an employee
\* references the position; otherwise it removes exactly that position and
\* persists the store.
C3_DeletePosition ==
    [][\A pos_id \in PosIds :
          (delete_position(pos_id) /\ pos_id \in Keys(positions)) =>
              IF Referenced(pos_id)
              THEN /\ last'.err = "referenced"
                   /\ positions' = positions
                   /\ file' = file
              ELSE /\ last'.err = "none"
                   /\ Keys(positions') = Keys(positions) \ {pos_id}
                   /\ \A i \in 1..Len(positions) :
                          positions[i].id # pos_id =>
                              \E j \in 1..Len(positions') : positions'[j] = positions[i]
                   /\ file' = <<Document(positions', employees)>>]_vars

\* a deletion was refused because an employee holds the position
C3_Witness ==
    /\ last = [op |-> "delete_position", err |-> "referenced"]
    /\ Len(employees) >= 1

\* the name predicate, stated over the characters of the name
NameOk(n) ==
    /\ Len(n) > 0
    /\ \A i \in 1..Len(n) : n[i] \in UpperChars \cup LowerChars
    /\ n[1] \in UpperChars

ValidArgs(fn, ln, pid, hd) ==
    /\ pid \in Keys(positions)
    /\ NameOk(fn)
    /\ NameOk(ln)
    /\ DateLeq(hd, today)

\* C9: add_employee fails, leaving the employees list and the file as they
\* were, when position_id is not in the store, when a name is not all
\* alphabetic with an uppercase first character, or when hire_date is after
\* today; otherwise it appends exactly one employee referencing the position
\* at the end of the list and persists the store.  A step of add_employee
\* that raised changed nothing and is the step of no call with valid
\* arguments; a step that did not raise is the step of calls with valid
\* arguments only, and appended the employee they describe.
C9_AddEmployee ==
    [][last'.op = "add_employee" =>
       IF last'.err # "none"
       THEN /\ employees' = employees
            /\ file' = file
            /\ \A fn \in {n \in StoreFirstNames : NameOk(n)},
                  ln \in {n \in StoreLastNames : NameOk(n)},
                  pid \in Keys(positions),
                  hd \in {d \in DateArgs : DateLeq(d, today)} :
                  ~add_employee(fn, ln, pid, hd)
       ELSE \A fn \in StoreFirstNames, ln \in StoreLastNames, pid \in PosIds,
               hd \in DateArgs :
               add_employee(fn, ln, pid, hd) =>
                   /\ ValidArgs(fn, ln, pid, hd)
                   /\ Len(employees') = Len(employees) + 1
                   /\ SubSeq(employees', 1, Len(employees)) = employees
                   /\ LET e == employees'[Len(employees')]
                      IN  /\ e.position = pid
                          /\ e.detached = <<>>
                          /\ e.first_name = fn
                          /\ e.last_name = ln
                          /\ e.hire_date = hd
                          /\ \A i \in 1..Len(employees) : employees[i].id # e.id
                   /\ positions' = positions
                   /\ file' = <<Document(positions, employees')>>]_vars

\* an employee was refused for its hire date after another had been added
C9_Witness ==
    /\ last = [op |-> "add_employee", err |-> "future_hire_date"]
    /\ Len(employees) >= 1
    /\ file = <<Document(positions, employees)>>

\* C5: a call of update_employee that fails leaves every field of the
\* employee as it was before the call.
C5_UpdateEmployeeAllOrNothing ==
    [][(last'.op = "update_employee" /\ last'.err # "none") => employees' = employees]_vars

-----------------------------------------------------------------------------
(* Properties of load_data *)

\* the record has an unparseable hire_date or a position_id not among the
\* loaded positions
Corrupt(raw, posDict) ==
    \/ ~strptime(Get(raw, "hire_date", <<>>)).ok
    \/ Get(raw, "position_id", NoId) \notin Keys(posDict)

\* the record is one the Employee constructor accepts
WellFormed(raw, posDict, now) ==
    /\ ~Corrupt(raw, posDict)
    /\ NameOk(Get(raw, "first_name", <<>>))
    /\ NameOk(Get(raw, "last_name", <<>>))
    /\ DateLeq(strptime(raw.hire_date).date, now)

\* the employee object is the one the record describes: it has the fields of
\* the record, the id of the record unless that is missing or empty, and
\* holds the Position object the dict has under position_id
Describes(raw, e) ==
    /\ e.first_name = raw.first_name
    /\ e.last_name = raw.last_name
    /\ e.position = raw.position_id
    /\ e.detached = <<>>
    /\ e.hire_date = strptime(raw.hire_date).date
    /\ Get(raw, "id", NoId) # NoId => e.id = raw.id

ValidPositionRecord(raw) ==
    /\ strip(Get(raw, "name", <<>>)) # <<>>
    /\ Get(raw, "access_level", 1) \in 1..5

\* load_data over the file f, having left the dict posDict and reported err,
\* has raised no error and has loaded exactly the employees `loaded`, when
\* every employee record of f is corrupt or well-formed
SoftSkip(f, posDict, now, err, loaded) ==
    LET raws == Records(f, "employees")
        praws == Records(f, "positions")
        good == SelectSeq(raws, LAMBDA r : ~Corrupt(r, posDict))
    IN  (/\ \A i \in 1..Len(praws) : ValidPositionRecord(praws[i])
         /\ \A i \in 1..Len(raws) :
                Corrupt(raws[i], posDict) \/ WellFormed(raws[i], posDict, now))
        => /\ err = "none"
           /\ Len(loaded) = Len(good)
           /\ \A i \in 1..Len(good) : Describes(good[i], loaded[i])

\* C7: when every employee record of the document is either corrupt
\* (unparseable hire_date or dangling position_id) or well-formed, load_data
\* raises no error and the employees it loads are exactly the well-formed
\* records, in file order: they are the whole list of a manager being
\* constructed, and the end of the list, after the employees of before, of a
\* manager in use.
C7_SoftSkipOnLoad ==
    /\ last.op = "load_data" => SoftSkip(file, positions, today, last.err, employees)
    /\ [][/\ last'.op = "load_data" =>
                SoftSkip(file', positions', today', last'.err, employees')
          /\ last'.op = "load_data_live" =>
                /\ Len(employees') >= Len(employees)
                /\ \A i \in 1..Len(employees) : employees'[i].id = employees[i].id
                /\ SoftSkip(file', positions', today', last'.err,
                            SubSeq(employees', Len(employees) + 1, Len(employees')))]_vars

\* a document of four employee records, two of them corrupt, was loaded
C7_Witness ==
    /\ last = [op |-> "load_data", err |-> "none"]
    /\ Len(Records(file, "employees")) = 4
    /\ \E i, j \in 1..4 :
         /\ ~strptime(Records(file, "employees")[i].hire_date).ok
         /\ Records(file, "employees")[j].position_id \notin Keys(positions)
    /\ Len(employees) = 2

\* C8: no two employees of the employees list share an id and no two
\* positions share an id.
C8_UniqueIds ==
    /\ \A i, j \in 1..Len(employees) : employees[i].id = employees[j].id => i = j
    /\ \A i, j \in 1..Len(positions) : positions[i].id = positions[j].id => i = j

-----------------------------------------------------------------------------
(* Properties of the positions *)

\* C2: no two distinct positions of the store have names that are equal when
\* compared case-insensitively.
C2_UniqueNames ==
    \A i, j \in 1..Len(positions) :
        lower(positions[i].name) = lower(positions[j].name) => i = j

\* C10: every position of the store has a name that is non-empty and has no
\* leading or trailing whitespace.
C10_TrimmedNames ==
    \A i \in 1..Len(positions) :
        /\ positions[i].name # <<>>
        /\ positions[i].name[1] \notin SpaceChars
        /\ positions[i].name[Len(positions[i].name)] \notin SpaceChars

\* C4: a call of update_position that fails leaves the position's name,
\* access_level and salary as they were before the call.
C4_UpdatePositionAllOrNothing ==
    [][(last'.op = "update_position" /\ last'.err # "none") => positions' = positions]_vars

AsSet(seq) == {seq[i] : i \in 1..Len(seq)}

\* id, first_name, last_name, position id and hire_date of the employees
EmployeeFields(emps) ==
    {[id |-> emps[i].id, first_name |-> emps[i].first_name,
      last_name |-> emps[i].last_name, position |-> emps[i].position,
      hire_date |-> emps[i].hire_date] : i \in 1..Len(emps)}

\* C6: from a store that a successful call has just persisted, save_data
\* followed by load_data into a fresh manager raises no error and yields the
\* same set of positions and the same set of employees.
C6_RoundTrip ==
    (up /\ last.err = "none") =>
        LET r == Construct(save_data(positions, employees), today, <<>>, <<>>)
        IN  /\ r.err = "none"
            /\ AsSet(r.positions) = AsSet(positions)
            /\ EmployeeFields(r.employees) = EmployeeFields(employees)

-----------------------------------------------------------------------------
(* The fields: access levels and hire dates of every kind, while the days pass *)

\* a position of access level 6, and an employee hired the day after the
\* first day, as documents written by hand may hold them
RawP6 == [RawP2 EXCEPT !.access_level = 6]
RawELate == [RawE2 EXCEPT !.hire_date = isoformat(DayAfter)]

FieldFiles ==
    { <<>>,
      <<[positions |-> <<RawP1, RawP6>>, employees |-> <<RawE1>>]>>,
      <<[positions |-> <<RawP1>>, employees |-> <<RawE1, RawELate>>]>> }

\* midnight passes: datetime.date.today() returns the next day from now on
Tick ==
    /\ today = FirstDay
    /\ today' = DayAfter
    /\ UNCHANGED <<positions, employees, file, up, last>>

AddPositionLevels == AddPositionOver({<<"A">>}, {5, 6}, {100})
UpdatePositionLevels == UpdatePositionOver({}, {1, 6}, {})
AddEmployeeDates == AddEmployeeOver({<<"A">>}, {<<"A">>}, DateArgs)
UpdateEmployeeDates == UpdateEmployeeOver({}, {}, DateArgs)

NextFields ==
    \/ AddPositionLevels
    \/ UpdatePositionLevels
    \/ DeletePosition
    \/ AddEmployeeDates
    \/ UpdateEmployeeDates
    \/ DeleteEmployee
    \/ LoadData
    \/ SaveData
    \/ Restart
    \/ Tick

SpecFields == InitOver(FieldFiles) /\ [][NextFields]_vars

\* C11: in every state, every position's access_level is one of 1, 2, 3, 4, 5
\* and no employee's hire_date is after the current date, the current date
\* never going back.
C11_FieldValidity ==
    /\ \A i \in 1..Len(positions) : positions[i].access_level \in {1, 2, 3, 4, 5}
    /\ \A i \in 1..Len(employees) :
           \/ employees[i].hire_date[1] < today[1]
           \/ /\ employees[i].hire_date[1] = today[1]
              /\ employees[i].hire_date[2] < today[2]
           \/ /\ employees[i].hire_date[1] = today[1]
              /\ employees[i].hire_date[2] = today[2]
              /\ employees[i].hire_date[3] <= today[3]

\* an access level outside the allowed ones was refused in a store that holds
\* an employee hired on the current day, the day after the first
C11_Witness ==
    /\ last = [op |-> "update_position", err |-> "bad_access_level"]
    /\ today = DayAfter
    /\ \E i \in 1..Len(employees) : employees[i].hire_date = DayAfter

-----------------------------------------------------------------------------
(* Properties of persistence *)

MutatingOps ==
    {"add_position", "update_position", "delete_position",
     "add_employee", "update_employee", "delete_employee"}

\* C12: right after every successful call of a mutating operation the file
\* holds one document, the serialization of all the positions and all the
\* employees in memory at that moment and nothing else; and constructing a
\* manager when no file exists creates the file with the empty store.
C12_WriteThrough ==
    /\ LET r == load_data(<<>>, <<>>, <<>>, today, <<>>, <<>>)
       IN  /\ r.err = "none"
           /\ r.positions = <<>>
           /\ r.employees = <<>>
           /\ r.file = <<[positions |-> <<>>, employees |-> <<>>]>>
    /\ [][(last'.op \in MutatingOps /\ last'.err = "none") =>
            file' = <<[positions |->
                          [i \in 1..Len(positions') |->
                              [id |-> positions'[i].id,
                               name |-> positions'[i].name,
                               access_level |-> positions'[i].access_level,
                               salary |-> positions'[i].salary]],
                       employees |->
                          [i \in 1..Len(employees') |->
                              [id |-> employees'[i].id,
                               first_name |-> employees'[i].first_name,
                               last_name |-> employees'[i].last_name,
                               position_id |-> employees'[i].position,
                               hire_date |-> isoformat(employees'[i].hire_date)]]]>>]_vars

\* an employee was moved to another position, in a store of two positions,
\* and the file holds both positions and the employee
C12_Witness ==
    /\ last = [op |-> "update_employee", err |-> "none"]
    /\ Len(positions) = 2
    /\ Len(file[1].positions) = 2
    /\ Len(file[1].employees) >= 1

-----------------------------------------------------------------------------
(* The process dying.  Kill: between two calls, or in a call before it opens *)
(* the file; the file is as it was.  CrashInSave: while save_data, called by *)
(* the last successful mutating call, was writing: the file has been emptied *)
(* by open and holds the text written so far.                                *)

Kill ==
    /\ up
    /\ up' = FALSE
    /\ last' = [op |-> "kill", err |-> "killed"]
    /\ UNCHANGED <<positions, employees, file, today>>

CrashInSave ==
    /\ up
    /\ last.op \in MutatingOps
    /\ last.err = "none"
    /\ \E n \in 0..(Len(file[1].positions) + Len(file[1].employees)) :
           file' = <<Truncated(file[1], n)>>
    /\ up' = FALSE
    /\ last' = [op |-> last.op, err |-> "killed_in_save"]
    /\ UNCHANGED <<positions, employees, today>>

AddPositionTwo == AddPositionOver(StorePosNames, {1}, {100})
UpdatePositionSalary == UpdatePositionOver({}, {}, {200})

NextCrash ==
    \/ AddPositionTwo
    \/ UpdatePositionSalary
    \/ DeletePosition
    \/ AddEmployeeOne
    \/ DeleteEmployee
    \/ Kill
    \/ CrashInSave
    \/ Restart

SpecCrash == InitFresh /\ [][NextCrash]_vars

\* C13: whenever the process dies in a mutating call, before save_data has
\* completed its write, the file holds a complete document (the one of before
\* the call or the one of after it), never an empty or partly written one.
C13_CrashSafety ==
    (last.err \in {"killed", "killed_in_save"}) =>
        /\ file # <<>>
        /\ DOMAIN file[1] = {"positions", "employees"}

-----------------------------------------------------------------------------
(* PersonnelManager.list_employees *)

\* ord(c), the order of one-character strings
ord(c) ==
    CASE c = " " -> 32
      [] c = "-" -> 45
      [] c \in DigitChars -> 48 + ValOf(c)
      [] c = "A" -> 65
      [] c = "B" -> 66
      [] c = "a" -> 97
      [] c = "b" -> 98

\* s < t on str: the first differing character decides, a proper prefix is less
RECURSIVE StrLess(_, _)
StrLess(s, t) ==
    IF t = <<>> THEN FALSE
    ELSE IF s = <<>> THEN TRUE
    ELSE IF s[1] = t[1] THEN StrLess(Tail(s), Tail(t))
    ELSE ord(s[1]) < ord(t[1])

\* d1 < d2 on dates
DateLess(d1, d2) == DateLeq(d1, d2) /\ d1 # d2

SortOpts == {"last_name", "position", "hire_date"}

\* key = sort_by if sort_by in opts else "last_name"
SortKey(sort_by) == IF sort_by \in SortOpts THEN sort_by ELSE "last_name"

\* the value the key function gives for the employee e
KeyOf(e, key, posDict) ==
    CASE key = "position" -> lower(PositionOf(e, posDict).name)
      [] key = "hire_date" -> e.hire_date
      [] OTHER -> e.last_name

KeyLess(a, b, key) == IF key = "hire_date" THEN DateLess(a, b) ELSE StrLess(a, b)

\* e placed in the sorted acc after every element whose key is not greater
RECURSIVE Insert(_, _, _, _)
Insert(e, acc, key, posDict) ==
    IF acc = <<>> THEN <<e>>
    ELSE IF KeyLess(KeyOf(e, key, posDict), KeyOf(Head(acc), key, posDict), key)
    THEN <<e>> \o acc
    ELSE <<Head(acc)>> \o Insert(e, Tail(acc), key, posDict)

\* sorted(seq, key=...): a new list, ascending, equal keys in the order of seq
RECURSIVE sorted(_, _, _)
sorted(seq, key, posDict) ==
    IF seq = <<>> THEN <<>>
    ELSE Insert(seq[Len(seq)], sorted(SubSeq(seq, 1, Len(seq) - 1), key, posDict),
                key, posDict)

\* list_employees that sorts self.employees itself (list.sort) and returns it
list_employees_in_place(sort_by) ==
    /\ employees' = sorted(employees, SortKey(sort_by), positions)
    /\ last' = [op |-> "list_employees", err |-> "none", sort_by |-> sort_by,
                result |-> employees']
    /\ UNCHANGED <<positions, file, today, up>>

\* PersonnelManager.list_employees; the list returned is kept in last.result
list_employees(sort_by) ==
    /\ last' = [op |-> "list_employees", err |-> "none", sort_by |-> sort_by,
                result |-> sorted(employees, SortKey(sort_by), positions)]
    /\ UNCHANGED <<positions, employees, file, today, up>>

SortByArgs == SortOpts \cup {"first_name"}

ListEmployees ==
    /\ up
    /\ \E sort_by \in SortByArgs : list_employees(sort_by)

\* a hire date of the year before
EarlierDay == <<2025, 12, 31>>

AddPositionNamed == AddPositionOver({<<"B">>, <<"a">>}, {1}, {100})
\* an employee A hired on the first day, or an employee B hired the year before
AddEmployeeListed ==
    \/ AddEmployeeOver({<<"A">>}, {<<"A">>}, {FirstDay})
    \/ AddEmployeeOver({<<"A">>}, {<<"B">>}, {EarlierDay})

UpdatePositionRenamed == UpdatePositionOver({<<"A">>}, {}, {})

NextList ==
    \/ AddPositionNamed
    \/ UpdatePositionRenamed
    \/ AddEmployeeListed
    \/ DeleteEmployee
    \/ LoadData
    \/ ListEmployees

SpecList == InitFresh /\ [][NextList]_vars

\* C14: list_employees(sort_by) returns a permutation of the stored employees
\* in ascending order of the chosen key (last_name, lower-cased position name
\* or hire_date; last_name for any other sort_by), employees of equal key in
\* their stored order; the stored list, the positions and the file are as
\* before; a second call with the same sort_by right after returns the same.
C14_ListEmployees ==
    [][last'.op = "list_employees" =>
         LET res == last'.result
             n == Len(employees)
             key == IF last'.sort_by \in {"last_name", "position", "hire_date"}
                    THEN last'.sort_by ELSE "last_name"
             K(e) == CASE key = "position" ->
                              lower((IF e.detached # <<>> THEN e.detached[1]
                                     ELSE CHOOSE p \in {positions[i] : i \in 1..Len(positions)} :
                                              p.id = e.position).name)
                       [] key = "hire_date" -> e.hire_date
                       [] OTHER -> e.last_name
             Less(a, b) == IF key = "hire_date"
                           THEN DateLeq(a, b) /\ a # b
                           ELSE StrLess(a, b)
         IN  /\ employees' = employees
             /\ positions' = positions
             /\ file' = file
             /\ Len(res) = n
             /\ \E pi \in [1..n -> 1..n] :
                    /\ \A i, j \in 1..n : pi[i] = pi[j] => i = j
                    /\ \A i \in 1..n : res[i] = employees[pi[i]]
                    /\ \A i, j \in 1..n : i < j => ~Less(K(res[j]), K(res[i]))
                    /\ \A i, j \in 1..n :
                           (i < j /\ K(res[i]) = K(res[j])) => pi[i] < pi[j]
             /\ (last.op = "list_employees" /\ last.sort_by = last'.sort_by)
                    => res = last.result]_vars

\* two employees were listed by position, in another order than the stored one
C14_Witness ==
    /\ last.op = "list_employees"
    /\ last.sort_by = "position"
    /\ Len(employees) = 2
    /\ last.result # employees

-----------------------------------------------------------------------------
(* Payroll (payroll.py).  Salaries are whole even amounts, as all the        *)
(* salaries of this module are; the amounts summary returns are counted in   *)
(* hundredths, so that a net amount such as 80.50 is the integer 8050.  A    *)
(* quotient total / count is the record [q, r] of the whole hundredths and   *)
(* the remainder: the number q + r / count.                                  *)

\* PDFO_RATE + MILITARY_TAX = 0.18 + 0.015, in thousandths
PDFO_RATE == 180
MILITARY_TAX == 15

\* Payroll.calculate_net: round(gross * (1 - rate), 2), in hundredths.  For an
\* even gross the product has at most one decimal and round leaves it as it is.
calculate_net(gross) ==
    LET rate == PDFO_RATE + MILITARY_TAX
    IN  (gross * (1000 - rate)) \div 10

\* sum of a list of numbers
RECURSIVE sum(_)
sum(list) == IF list = <<>> THEN 0 ELSE Head(list) + sum(Tail(list))

\* total / count
Quotient(total, count) == [q |-> total \div count, r |-> total % count]

\* the 0 returned for an average over no employee
ZeroAverage == [q |-> 0, r |-> 0]

\* summary that totals the salaries of the positions of the store, not those
\* of the employees
summary_over_positions(emps, posDict) ==
    LET gross_list == [i \in 1..Len(posDict) |-> 100 * posDict[i].salary]
        net_list == [i \in 1..Len(posDict) |-> calculate_net(posDict[i].salary)]
    IN  [total_gross |-> sum(gross_list),
         total_net |-> sum(net_list),
         average_gross |-> IF gross_list # <<>>
                           THEN Quotient(sum(gross_list), Len(gross_list))
                           ELSE ZeroAverage,
         average_net |-> IF net_list # <<>>
                         THEN Quotient(sum(net_list), Len(net_list))
                         ELSE ZeroAverage]

\* Payroll.summary(employees); e.position.salary is read through posDict
summary(emps, posDict) ==
    LET gross_list == [i \in 1..Len(emps) |-> 100 * PositionOf(emps[i], posDict).salary]
        net_list == [i \in 1..Len(emps) |->
                        calculate_net(PositionOf(emps[i], posDict).salary)]
    IN  [total_gross |-> sum(gross_list),
         total_net |-> sum(net_list),
         average_gross |-> IF gross_list # <<>>
                           THEN Quotient(sum(gross_list), Len(gross_list))
                           ELSE ZeroAverage,
         average_net |-> IF net_list # <<>>
                         THEN Quotient(sum(net_list), Len(net_list))
                         ELSE ZeroAverage]

\* PersonnelManager.payroll_info; the summary computed is kept in last.result
payroll_info ==
    /\ last' = [op |-> "payroll_info", err |-> "none",
                result |-> summary(employees, positions)]
    /\ UNCHANGED <<positions, employees, file, today, up>>

PayrollInfo ==
    /\ up
    /\ payroll_info

AddPositionPaid == AddPositionOver(StorePosNames, {1}, SalaryArgs)
UpdatePositionPaid == UpdatePositionOver({}, {}, SalaryArgs)

NextPayroll ==
    \/ AddPositionPaid
    \/ UpdatePositionPaid
    \/ AddEmployeeOne
    \/ DeleteEmployee
    \/ LoadData
    \/ PayrollInfo

SpecPayroll == InitFresh /\ [][NextPayroll]_vars

\* the salary of the position the i-th employee holds, in hundredths
SalaryOf(i) ==
    100 * (IF employees[i].detached # <<>> THEN employees[i].detached[1]
           ELSE CHOOSE p \in {positions[k] : k \in 1..Len(positions)} :
                    p.id = employees[i].position).salary

\* C15: summary(employees) returns total_gross, the sum of the employees'
\* position salaries; total_net, the sum of their net amounts; and averages
\* that are those totals divided by the number of employees; for no employee
\* all four are 0; the employees, the positions and the file are as before.
C15_PayrollSummary ==
    [][last'.op = "payroll_info" =>
         LET res == last'.result
             n == Len(employees)
             gross == sum([i \in 1..n |-> SalaryOf(i)])
             net == sum([i \in 1..n |-> (SalaryOf(i) * 805) \div 1000])
         IN  /\ employees' = employees
             /\ positions' = positions
             /\ file' = file
             /\ res.total_gross = gross
             /\ res.total_net = net
             /\ IF n = 0
                THEN /\ res.total_gross = 0
                     /\ res.total_net = 0
                     /\ res.average_gross = [q |-> 0, r |-> 0]
                     /\ res.average_net = [q |-> 0, r |-> 0]
                ELSE /\ n * res.average_gross.q + res.average_gross.r = gross
                     /\ res.average_gross.r \in 0..(n - 1)
                     /\ n * res.average_net.q + res.average_net.r = net
                     /\ res.average_net.r \in 0..(n - 1)]_vars

\* the payroll of two employees on positions of different salaries and a
\* position more than the employees hold was summarised
C15_Witness ==
    /\ last.op = "payroll_info"
    /\ Len(employees) = 2
    /\ Len(positions) = 2
    /\ employees[1].position # employees[2].position
    /\ positions[1].salary # positions[2].salary
    /\ last.result.total_gross = 30000
    /\ last.result.average_net = [q |-> 12075, r |-> 0]

====
